---- MODULE Spec2Model ----
(***************************************************************************)
(* Model of datacube/utils/geometry/gbox.py: the pixel-plane operations on *)
(* a GeoBox (flipy, flipx, translate_pix) and the GeoboxTiles partitioner  *)
(* with its lazily filled cache.                                           *)
(*                                                                         *)
(* An affine map is the 6-tuple <<a, b, c, d, e, f>> of                    *)
(*     x' = a*x + b*y + c,   y' = d*x + e*y + f.                           *)
(* Coefficients are integers: on them the float arithmetic of the affine   *)
(* package is exact, so equality of tuples is equality of transforms.      *)
(* A Python slice(start, stop) is the pair <<start, stop>>.                *)
(***************************************************************************)
EXTENDS Integers, Sequences, FiniteSets, TLC

VARIABLES
    gbox,        \* GeoboxTiles._gbox, the source box (the input box of SpecGeom)
    tile_shape,  \* GeoboxTiles._tile_shape
    shape,       \* GeoboxTiles._shape
    cache,       \* GeoboxTiles._cache: index -> GeoBox object
    made,        \* index -> number of GeoBox objects sliced out for it so far
    result,      \* outcome of the last completed call
    first,       \* index -> the object the first successful lookup returned
    thr,         \* SpecConc: each thread's position inside __getitem__
    cur,         \* SpecGeom: the box obtained by applying trace to gbox
    trace        \* SpecGeom: the operations applied so far

vars == <<gbox, tile_shape, shape, cache, made, result, first, thr, cur, trace>>

----------------------------------------------------------------------------
(* Bounds *)

\* source extents of the partitioner under Spec: H, W in 1..MaxDim
MaxDim == 2
\* tile extents under Spec: 1..MaxTile
MaxTile == 2
\* number of distinct indices the cache is allowed to fill under Spec
MaxCached == 2
\* source extents under SpecSlices: 1..SliceDim
SliceDim == 5
\* tile extents under SpecSlices: 1..SliceTile
SliceTile == 3
\* number of concurrent lookups under SpecConc
NThreads == 2
\* box extents under SpecGeom: 1..GeoDim
GeoDim == 2
\* pixel offsets of translate_pix under SpecGeom: -1..MaxShift
MaxShift == 1
\* number of operations chained under SpecGeom
MaxOps == 2

----------------------------------------------------------------------------
(* The affine package, as far as gbox.py uses it *)

\* Affine.translation(xoff, yoff)
AffineTranslation(xoff, yoff) == <<1, 0, xoff, 0, 1, yoff>>

\* Affine.scale(sx, sy)
AffineScale(sx, sy) == <<sx, 0, 0, 0, sy, 0>>

\* Affine.__mul__ on two transforms: (A*B)(p) = A(B(p))
AffineMul(A, B) ==
    << A[1]*B[1] + A[2]*B[4],  A[1]*B[2] + A[2]*B[5],  A[1]*B[3] + A[2]*B[6] + A[3],
       A[4]*B[1] + A[5]*B[4],  A[4]*B[2] + A[5]*B[5],  A[4]*B[3] + A[5]*B[6] + A[6] >>

\* Affine.__mul__ on a point <<x, y>>
AffineApply(A, p) ==
    << A[1]*p[1] + A[2]*p[2] + A[3],  A[4]*p[1] + A[5]*p[2] + A[6] >>

----------------------------------------------------------------------------
(* GeoBox, the value type of ._base *)

\* GeoBox(width, height, affine, crs); .shape is (height, width)
GeoBox(W, H, A, crs) == [shape |-> <<H, W>>, affine |-> A, crs |-> crs]

\* one bound of a slice against an axis of extent n: a negative bound counts
\* from the end, as in Python
NormBound(x, n) == IF x >= 0 THEN x ELSE n + x

\* GeoBox.__getitem__((row_slice, col_slice)): the sub-box of the pixel
\* rectangle, its transform translated to the rectangle's corner
GeoBoxGetItem(g, roi) ==
    LET r0 == NormBound(roi[1][1], g.shape[1])
        r1 == NormBound(roi[1][2], g.shape[1])
        c0 == NormBound(roi[2][1], g.shape[2])
        c1 == NormBound(roi[2][2], g.shape[2])
    IN  GeoBox(c1 - c0, r1 - r0, AffineMul(g.affine, AffineTranslation(c0, r0)), g.crs)

----------------------------------------------------------------------------
(* Transform functions *)

flipy(g) ==
    LET H == g.shape[1]
        W == g.shape[2]
        A == AffineMul(AffineTranslation(0, H), AffineScale(1, -1))
    IN  GeoBox(W, H, AffineMul(g.affine, A), g.crs)

\* flipx with the scale of flipy: Affine.scale(1, -1) for Affine.scale(-1, 1)
FlipXWrongAxis(g) ==
    LET H == g.shape[1]
        W == g.shape[2]
        A == AffineMul(AffineTranslation(W, 0), AffineScale(1, -1))
    IN  GeoBox(W, H, AffineMul(g.affine, A), g.crs)

flipx(g) ==
    LET H == g.shape[1]
        W == g.shape[2]
        A == AffineMul(AffineTranslation(W, 0), AffineScale(-1, 1))
    IN  GeoBox(W, H, AffineMul(g.affine, A), g.crs)

\* the translation composed on the world side: Affine.translation(tx, ty)*gbox.affine
TranslateWorldSide(g, tx, ty) ==
    LET H == g.shape[1]
        W == g.shape[2]
    IN  GeoBox(W, H, AffineMul(AffineTranslation(tx, ty), g.affine), g.crs)

translate_pix(g, tx, ty) ==
    LET H == g.shape[1]
        W == g.shape[2]
    IN  GeoBox(W, H, AffineMul(g.affine, AffineTranslation(tx, ty)), g.crs)

----------------------------------------------------------------------------
(* GeoboxTiles *)

\* the outcome of a call that raised IndexError
IndexError == <<"IndexError">>

Min(a, b) == IF a <= b THEN a ELSE b

\* math.ceil(float(N)/n) for n > 0
CeilDiv(N, n) == IF N % n = 0 THEN N \div n ELSE (N \div n) + 1

\* the _shape computed by __init__
GridShape(box_shape, tshape) ==
    << CeilDiv(box_shape[1], tshape[1]), CeilDiv(box_shape[2], tshape[2]) >>

\* _slice with the range test off by one: i*n > N for i*n >= N
SliceTestOffByOne(i, N, n) ==
    LET _in == i*n
    IN  IF _in > N THEN IndexError ELSE << _in, Min(_in + n, N) >>

\* _slice with max for min: stop = max(start + n, N)
SliceMaxForMin(i, N, n) ==
    LET _in == i*n
    IN  IF _in >= N THEN IndexError
        ELSE << _in, IF _in + n >= N THEN _in + n ELSE N >>

\* _slice without the clipping of the last tile: stop = start + n
SliceUnclipped(i, N, n) ==
    LET _in == i*n
    IN  IF _in >= N THEN IndexError ELSE << _in, _in + n >>

\* the inner _slice(i, N, n) of _idx_to_slice
_slice(i, N, n) ==
    LET _in == i*n
    IN  IF _in >= N THEN IndexError ELSE << _in, Min(_in + n, N) >>

\* _idx_to_slice(idx) on a partitioner with the given box and tile shapes
_idx_to_slice(idx, box_shape, tshape) ==
    LET ir == _slice(idx[1], box_shape[1], tshape[1])
        ic == _slice(idx[2], box_shape[2], tshape[2])
    IN  IF ir = IndexError \/ ic = IndexError THEN IndexError ELSE <<ir, ic>>

\* the cache rebuilt around the new entry: every other entry is dropped
CacheReplaceAll(c, idx, obj) == (idx :> obj)

\* a plain store, self._cache[idx] = obj: an entry already present is overwritten
CacheOverwrite(c, idx, obj) == (idx :> obj) @@ c

\* dict.setdefault(idx, obj): the mapping afterwards; an entry already present
\* is kept (the value returned is the entry of idx afterwards)
CacheSetDefault(c, idx, obj) == c @@ (idx :> obj)

\* number of boxes sliced out for idx so far
Made(idx) == IF idx \in DOMAIN made THEN made[idx] ELSE 0

\* the region sliced with rows and columns swapped: self._gbox[roi[::-1]]
NewSubBoxTransposed(idx, roi) ==
    [id |-> <<idx, Made(idx)>>, box |-> GeoBoxGetItem(gbox, <<roi[2], roi[1]>>)]

\* self._gbox[roi], a new GeoBox object: the Made(idx)-th one built for idx
NewSubBox(idx, roi) == [id |-> <<idx, Made(idx)>>, box |-> GeoBoxGetItem(gbox, roi)]

NoObj == [id |-> <<>>, box |-> <<>>]
NoResult == [idx |-> <<>>, status |-> "none", hit |-> FALSE, obj |-> NoObj]
Threads == 1..NThreads
IdleThread == [pc |-> "idle", idx |-> <<>>, roi |-> <<>>, new |-> NoObj, ret |-> NoObj]

\* __init__(box, tile_shape)
GeoboxTilesInit(box, tshape) ==
    /\ gbox = box
    /\ tile_shape = tshape
    /\ shape = GridShape(box.shape, tshape)
    /\ cache = <<>>
    /\ made = <<>>

----------------------------------------------------------------------------
(* Spec: one partitioner, lookups one after another *)

SrcAffine == <<2, 0, 10, 0, -2, 20>>
SrcCrs == "EPSG:4326"

IndexRange == (-1)..MaxDim

\* __getitem__(idx), from call to return or raise
GetItem(idx) ==
    /\ \/ idx \in DOMAIN cache
       \/ _idx_to_slice(idx, gbox.shape, tile_shape) = IndexError
       \/ Cardinality(DOMAIN cache) < MaxCached
    /\ IF idx \in DOMAIN cache
         THEN /\ result' = [idx |-> idx, status |-> "ok", hit |-> TRUE, obj |-> cache[idx]]
              /\ UNCHANGED <<cache, made>>
         ELSE LET roi == _idx_to_slice(idx, gbox.shape, tile_shape)
              IN  IF roi = IndexError
                    THEN /\ result' = [idx |-> idx, status |-> "IndexError",
                                       hit |-> FALSE, obj |-> NoObj]
                         /\ UNCHANGED <<cache, made>>
                    ELSE LET new == NewSubBox(idx, roi)
                             c2  == CacheSetDefault(cache, idx, new)
                         IN  /\ cache' = c2
                             /\ made' = (idx :> Made(idx) + 1) @@ made
                             /\ result' = [idx |-> idx, status |-> "ok",
                                           hit |-> FALSE, obj |-> c2[idx]]
    /\ first' = IF result'.status = "ok" /\ idx \notin DOMAIN first
                  THEN first @@ (idx :> result'.obj)
                  ELSE first
    /\ UNCHANGED <<gbox, tile_shape, shape, thr, cur, trace>>

Init ==
    /\ \E H \in 1..MaxDim, W \in 1..MaxDim, th \in 1..MaxTile, tw \in 1..MaxTile :
          GeoboxTilesInit(GeoBox(W, H, SrcAffine, SrcCrs), <<th, tw>>)
    /\ result = NoResult
    /\ first = <<>>
    /\ thr = [t \in Threads |-> IdleThread]
    /\ cur = gbox
    /\ trace = <<>>

Next == \E r \in IndexRange, c \in IndexRange : GetItem(<<r, c>>)

Spec == Init /\ [][Next]_vars

----------------------------------------------------------------------------
(* Claims checked under Spec *)

Negative(idx) == idx[1] < 0 \/ idx[2] < 0

\* C1: a lookup whose index has a negative component fails with IndexError.
C1_NegativeIndexRaises ==
    (result.status # "none" /\ Negative(result.idx)) => result.status = "IndexError"

\* C2: a lookup of (r, c) with r >= 0 and c >= 0 fails with IndexError exactly
\* when r >= grid_shape[0] or c >= grid_shape[1], and succeeds otherwise.
C2_RangeTestIsGridBound ==
    (result.status # "none" /\ ~Negative(result.idx)) =>
        /\ result.status \in {"ok", "IndexError"}
        /\ (result.status = "IndexError") <=>
               (result.idx[1] >= shape[1] \/ result.idx[2] >= shape[2])

\* C2 witness: the lookup of the first index past the grid, (grid_shape[0], 0),
\* has failed on a grid of more than one row.
C2_Witness ==
    /\ result.status = "IndexError"
    /\ shape[1] > 1
    /\ result.idx = <<shape[1], 0>>

\* C5: every cache entry equals the box that slicing the source box with
\* index_to_slices of its key produces now.
C5_CacheEntriesFresh ==
    \A k \in DOMAIN cache :
        LET roi == _idx_to_slice(k, gbox.shape, tile_shape)
        IN  /\ roi # IndexError
            /\ cache[k].box = GeoBoxGetItem(gbox, roi)

\* C5 witness: two tiles of the grid are cached, one of them a boundary tile
\* clipped to the source extent and not at the origin, and the last lookup was
\* served from the cache.
C5_Witness ==
    /\ Cardinality(DOMAIN cache) >= 2
    /\ \A k \in DOMAIN cache : ~Negative(k)
    /\ result.hit
    /\ \E k \in DOMAIN cache :
          /\ k # <<0, 0>>
          /\ cache[k].box.shape[2] < tile_shape[2]

\* C6: a cache entry, once present, is never removed or replaced, and every
\* successful lookup of an index returns the object its first lookup returned.
C6_StableIdentity ==
    [][ /\ \A k \in DOMAIN cache : k \in DOMAIN cache' /\ cache'[k] = cache[k]
        /\ (result'.status = "ok" /\ result'.idx \in DOMAIN first)
               => result'.obj = first[result'.idx] ]_vars

\* C6 witness: an index of the grid is looked up again while another index of
\* the grid is cached too, and the object of its first lookup comes back.
C6_Witness ==
    /\ result.status = "ok"
    /\ result.hit
    /\ Cardinality(DOMAIN cache) >= 2
    /\ \A k \in DOMAIN cache : ~Negative(k)
    /\ result.obj = first[result.idx]

\* C10: every key of the cache lies inside [0, grid_shape).
C10_CacheKeysInGrid ==
    \A k \in DOMAIN cache :
        /\ 0 <= k[1] /\ k[1] < shape[1]
        /\ 0 <= k[2] /\ k[2] < shape[2]

----------------------------------------------------------------------------
(* SpecSlices: index_to_slices on partitioners of many shapes *)

\* the scenario of the documentation: source (100, 100), tiles of (30, 30)
Scenario == << <<100, 100>>, <<30, 30>> >>

SliceIndexRange == (-1)..SliceDim

\* a call of _idx_to_slice(idx), from call to return or raise
IdxToSlice(idx) ==
    /\ LET roi == _idx_to_slice(idx, gbox.shape, tile_shape)
       IN  result' = [idx |-> idx,
                      status |-> IF roi = IndexError THEN "IndexError" ELSE "ok",
                      hit |-> FALSE, obj |-> roi]
    /\ UNCHANGED <<gbox, tile_shape, shape, cache, made, first, thr, cur, trace>>

InitSlices ==
    /\ \/ \E H \in 1..SliceDim, W \in 1..SliceDim, th \in 1..SliceTile, tw \in 1..SliceTile :
             GeoboxTilesInit(GeoBox(W, H, SrcAffine, SrcCrs), <<th, tw>>)
       \/ GeoboxTilesInit(GeoBox(Scenario[1][2], Scenario[1][1], SrcAffine, SrcCrs),
                          Scenario[2])
    /\ result = NoResult
    /\ first = <<>>
    /\ thr = [t \in Threads |-> IdleThread]
    /\ cur = gbox
    /\ trace = <<>>

NextSlices == \E r \in SliceIndexRange, c \in SliceIndexRange : IdxToSlice(<<r, c>>)

SpecSlices == InitSlices /\ [][NextSlices]_vars

\* the indices of the grid
GridIndices == (0..(shape[1] - 1)) \X (0..(shape[2] - 1))

\* pixel p lies in slice s
InSlice(s, p) == s[1] <= p /\ p < s[2]

\* C3: the slices of the indices of the grid partition [0,H) x [0,W): none
\* raises or reaches outside the source extent, and every pixel lies in the
\* slice pair of exactly one index.
C3_SlicesPartition ==
    LET H == gbox.shape[1]
        W == gbox.shape[2]
        Roi(idx) == _idx_to_slice(idx, gbox.shape, tile_shape)
    IN  /\ \A idx \in GridIndices :
              /\ Roi(idx) # IndexError
              /\ 0 <= Roi(idx)[1][1] /\ Roi(idx)[1][1] < Roi(idx)[1][2] /\ Roi(idx)[1][2] <= H
              /\ 0 <= Roi(idx)[2][1] /\ Roi(idx)[2][1] < Roi(idx)[2][2] /\ Roi(idx)[2][2] <= W
        /\ \A y \in 0..(H - 1), x \in 0..(W - 1) :
              Cardinality({ idx \in GridIndices :
                              InSlice(Roi(idx)[1], y) /\ InSlice(Roi(idx)[2], x) }) = 1

\* C3 witness: index_to_slices has returned the slices of the last tile of a
\* grid of several rows and columns, clipped on both axes.
C3_Witness ==
    /\ result.status = "ok"
    /\ shape[1] > 1 /\ shape[2] > 1
    /\ result.idx = <<shape[1] - 1, shape[2] - 1>>
    /\ result.obj[1][2] - result.obj[1][1] < tile_shape[1]
    /\ result.obj[2][2] - result.obj[2][1] < tile_shape[2]

\* length of the slice of index i on axis a, and the length the rule gives it
SliceLen(idx, a) ==
    LET roi == _idx_to_slice(idx, gbox.shape, tile_shape)
    IN  roi[a][2] - roi[a][1]

RuleLen(i, N, n, g) ==
    IF i < g - 1 THEN n
    ELSE IF N % n = 0 THEN n ELSE N % n

\* C4: on each axis a tile before the last has length n, the last has length
\* N mod n, or n when n divides N; for source (100, 100) and tiles (30, 30)
\* the grid is (4, 4), tile (0, 0) is 30 x 30 and tile (3, 3) is 10 x 10.
C4_TileLengths ==
    /\ \A idx \in GridIndices : \A a \in {1, 2} :
          SliceLen(idx, a) = RuleLen(idx[a], gbox.shape[a], tile_shape[a], shape[a])
    /\ (gbox.shape = Scenario[1] /\ tile_shape = Scenario[2]) =>
          /\ shape = <<4, 4>>
          /\ SliceLen(<<0, 0>>, 1) = 30 /\ SliceLen(<<0, 0>>, 2) = 30
          /\ SliceLen(<<3, 3>>, 1) = 10 /\ SliceLen(<<3, 3>>, 2) = 10
          /\ result.idx = <<3, 3>> => result.obj = << <<90, 100>>, <<90, 100>> >>

\* C4 witness: in the scenario index_to_slices has returned the slices of tile
\* (3, 3).
C4_Witness ==
    /\ gbox.shape = Scenario[1] /\ tile_shape = Scenario[2]
    /\ result.status = "ok"
    /\ result.idx = <<3, 3>>

----------------------------------------------------------------------------
(* SpecConc: NThreads lookups on one partitioner, interleaved at the steps *)
(* of __getitem__                                                          *)

\* a source of one row of two tiles, the second clipped; the indices looked
\* up: the two tiles and one index outside the grid
ConcShape == <<2, 3>>
ConcTile == <<2, 2>>
ConcIndices == { <<0, 0>>, <<0, 1>>, <<1, 0>> }

\* thread t enters __getitem__(idx)
Call(t, idx) ==
    /\ thr[t].pc = "idle"
    /\ thr' = [thr EXCEPT ![t].pc = "get", ![t].idx = idx]
    /\ UNCHANGED <<gbox, tile_shape, shape, cache, made, result, first, cur, trace>>

\* sub_gbox = self._cache.get(idx, None), and the return of a hit
CacheGet(t) ==
    /\ thr[t].pc = "get"
    /\ IF thr[t].idx \in DOMAIN cache
         THEN /\ thr' = [thr EXCEPT ![t].pc = "done", ![t].ret = cache[thr[t].idx]]
              /\ first' = first @@ (thr[t].idx :> cache[thr[t].idx])
         ELSE /\ thr' = [thr EXCEPT ![t].pc = "slice"]
              /\ UNCHANGED first
    /\ UNCHANGED <<gbox, tile_shape, shape, cache, made, result, cur, trace>>

\* roi = self._idx_to_slice(idx)
ToSlice(t) ==
    /\ thr[t].pc = "slice"
    /\ LET roi == _idx_to_slice(thr[t].idx, gbox.shape, tile_shape)
       IN  IF roi = IndexError
             THEN thr' = [thr EXCEPT ![t].pc = "raised"]
             ELSE thr' = [thr EXCEPT ![t].pc = "region", ![t].roi = roi]
    /\ UNCHANGED <<gbox, tile_shape, shape, cache, made, result, first, cur, trace>>

\* the argument self._gbox[roi] of setdefault
Region(t) ==
    /\ thr[t].pc = "region"
    /\ thr' = [thr EXCEPT ![t].pc = "insert",
                          ![t].new = NewSubBox(thr[t].idx, thr[t].roi)]
    /\ made' = (thr[t].idx :> Made(thr[t].idx) + 1) @@ made
    /\ UNCHANGED <<gbox, tile_shape, shape, cache, result, first, cur, trace>>

\* return self._cache.setdefault(idx, ...), one atomic step of the dict
SetDefault(t) ==
    /\ thr[t].pc = "insert"
    /\ LET c2 == CacheSetDefault(cache, thr[t].idx, thr[t].new)
       IN  /\ cache' = c2
           /\ thr' = [thr EXCEPT ![t].pc = "done", ![t].ret = c2[thr[t].idx]]
           /\ first' = first @@ (thr[t].idx :> c2[thr[t].idx])
    /\ UNCHANGED <<gbox, tile_shape, shape, made, result, cur, trace>>

\* the caller has its box, or its IndexError, and may call again
Return(t) ==
    /\ thr[t].pc \in {"done", "raised"}
    /\ thr' = [thr EXCEPT ![t] = IdleThread]
    /\ UNCHANGED <<gbox, tile_shape, shape, cache, made, result, first, cur, trace>>

InitConc ==
    /\ GeoboxTilesInit(GeoBox(ConcShape[2], ConcShape[1], SrcAffine, SrcCrs), ConcTile)
    /\ result = NoResult
    /\ first = <<>>
    /\ thr = [t \in Threads |-> IdleThread]
    /\ cur = gbox
    /\ trace = <<>>

NextConc ==
    \E t \in Threads :
        \/ \E idx \in ConcIndices : Call(t, idx)
        \/ CacheGet(t)
        \/ ToSlice(t)
        \/ Region(t)
        \/ SetDefault(t)
        \/ Return(t)

SpecConc == InitConc /\ [][NextConc]_vars

\* C9: every lookup of an index that has returned holds the object the first
\* lookup of that index returned, and it is the one entry of that index in the
\* cache; so all lookups of one index return the same object.
C9_ConcurrentLookupsAgree ==
    /\ \A t \in Threads : thr[t].pc = "done" =>
          /\ thr[t].idx \in DOMAIN cache
          /\ cache[thr[t].idx].id = thr[t].ret.id
          /\ cache[thr[t].idx].box = thr[t].ret.box
          /\ first[thr[t].idx].id = thr[t].ret.id
    /\ \A t1 \in Threads, t2 \in Threads :
          (thr[t1].pc = "done" /\ thr[t2].pc = "done" /\ thr[t1].idx = thr[t2].idx)
              => thr[t1].ret.id = thr[t2].ret.id

\* C9 witness: two lookups of one index have both sliced out a box and both
\* returned, one of them with the other's box and not its own.
C9_Witness ==
    \E t1 \in Threads, t2 \in Threads :
        /\ t1 # t2
        /\ thr[t1].pc = "done" /\ thr[t2].pc = "done"
        /\ thr[t1].idx = thr[t2].idx
        /\ thr[t1].new.id # <<>> /\ thr[t2].new.id # <<>>
        /\ thr[t1].new.id # thr[t2].new.id
        /\ thr[t2].ret.id = thr[t1].new.id
        /\ thr[t2].ret.id # thr[t2].new.id

----------------------------------------------------------------------------
(* SpecGeom: flipx, flipy and translate_pix chained on a box *)

\* transforms of the input boxes: identity, north-up, a quarter turn, general
GeoAffines ==
    { <<1, 0, 0, 0, 1, 0>>, <<2, 0, 10, 0, -2, 20>>,
      <<0, -1, 5, 1, 0, -3>>, <<1, 2, 3, 4, 5, 6>> }
GeoCrs == { "EPSG:4326", "EPSG:3857" }
Shifts == (-1)..MaxShift

FlipY ==
    /\ Len(trace) < MaxOps
    /\ cur' = flipy(cur)
    /\ trace' = Append(trace, [op |-> "flipy", tx |-> 0, ty |-> 0])
    /\ UNCHANGED <<gbox, tile_shape, shape, cache, made, result, first, thr>>

FlipX ==
    /\ Len(trace) < MaxOps
    /\ cur' = flipx(cur)
    /\ trace' = Append(trace, [op |-> "flipx", tx |-> 0, ty |-> 0])
    /\ UNCHANGED <<gbox, tile_shape, shape, cache, made, result, first, thr>>

TranslatePix(tx, ty) ==
    /\ Len(trace) < MaxOps
    /\ cur' = translate_pix(cur, tx, ty)
    /\ trace' = Append(trace, [op |-> "translate_pix", tx |-> tx, ty |-> ty])
    /\ UNCHANGED <<gbox, tile_shape, shape, cache, made, result, first, thr>>

InitGeom ==
    /\ \E H \in 1..GeoDim, W \in 1..GeoDim, A \in GeoAffines, crs \in GeoCrs :
          gbox = GeoBox(W, H, A, crs)
    /\ cur = gbox
    /\ trace = <<>>
    /\ tile_shape = gbox.shape
    /\ shape = <<1, 1>>
    /\ cache = <<>>
    /\ made = <<>>
    /\ result = NoResult
    /\ first = <<>>
    /\ thr = [t \in Threads |-> IdleThread]

NextGeom ==
    \/ FlipY
    \/ FlipX
    \/ \E tx \in Shifts, ty \in Shifts : TranslatePix(tx, ty)

SpecGeom == InitGeom /\ [][NextGeom]_vars

\* trace is exactly two operations named op
Twice(op) == Len(trace) = 2 /\ trace[1].op = op /\ trace[2].op = op

\* C7: flipx applied twice, and flipy applied twice, give a box with the
\* shape, the CRS and the transform of the input box.
C7_FlipInvolution ==
    (Twice("flipx") \/ Twice("flipy")) =>
        /\ cur.shape = gbox.shape
        /\ cur.crs = gbox.crs
        /\ cur.affine = gbox.affine

\* C7 witness: flipx has been applied twice to a box that is not square and
\* whose transform has all six coefficients non-zero.
C7_Witness ==
    /\ Twice("flipx")
    /\ gbox.shape[1] # gbox.shape[2]
    /\ \A k \in 1..6 : gbox.affine[k] # 0
    /\ cur = gbox

\* C8: translate_pix by (tx1, ty1) and then by (tx2, ty2) gives the shape, CRS
\* and transform A*translation(tx1+tx2, ty1+ty2) of one translate_pix by the
\* sum; and the transform of translate_pix(b, tx, ty) maps pixel (0, 0) to the
\* world point of pixel (tx, ty) of b.
C8_TranslateComposes ==
    /\ Twice("translate_pix") =>
          LET tx == trace[1].tx + trace[2].tx
              ty == trace[1].ty + trace[2].ty
          IN  /\ cur.shape = gbox.shape
              /\ cur.crs = gbox.crs
              /\ cur.affine = AffineMul(gbox.affine, AffineTranslation(tx, ty))
              /\ cur = translate_pix(gbox, tx, ty)
    /\ (Len(trace) = 1 /\ trace[1].op = "translate_pix") =>
          AffineApply(cur.affine, <<0, 0>>)
              = AffineApply(gbox.affine, <<trace[1].tx, trace[1].ty>>)

\* C8 witness: two translations with non-zero offsets on both axes have been
\* applied to a box whose transform has all six coefficients non-zero.
C8_Witness ==
    /\ Twice("translate_pix")
    /\ trace[1].tx # 0 /\ trace[1].ty # 0 /\ trace[2].tx # 0 /\ trace[2].ty # 0
    /\ trace[1].tx + trace[2].tx # 0
    /\ \A k \in 1..6 : gbox.affine[k] # 0

====
